---- MODULE Spec2Model ----
(***************************************************************************)
(* Model of the resumable, rate-limited batch executor of                  *)
(* block_followers.py: BatchState (load / save / window bookkeeping),      *)
(* fetch_all_followers, add_to_blocklist, run_batch_process and the        *)
(* orchestrator add_followers_to_blocklist (Spec, SpecFixed, SpecLoad,     *)
(* SpecLive), and of add_interactors_to_blocklist of blocklist.py          *)
(* (SpecInteractors).                                                      *)
(*                                                                         *)
(* One process runs at a time.  pc is the position of the running process  *)
(* ("start" when no process runs).  The state file outlives the process;   *)
(* the in-memory BatchState (data) and every local do not.                 *)
(*                                                                         *)
(* Time.  The clock is counted in ticks of one pacing delay                *)
(* (DELAY_BETWEEN_CREATES).  The program only ever compares               *)
(* datetime.now() with hour_started, so a timestamp is kept as the time    *)
(* elapsed since it was taken, saturating at Hour: "hour_started = now"    *)
(* stores 0, "now - hour_started >= 1 hour" reads the stored value >= Hour.*)
(* A stored value below 0 is a timestamp ahead of a clock that was set back.*)
(* The time constants are scaled (the source has 1500 creates per 3600 s,  *)
(* a 2.4 s pacing delay and a 30 s first backoff); the scaling keeps       *)
(* DELAY_BETWEEN_CREATES = Hour / CREATES_PER_HOUR and                     *)
(* INITIAL_BACKOFF >= DELAY_BETWEEN_CREATES.                               *)
(***************************************************************************)
EXTENDS Integers, Sequences, FiniteSets, TLC

\* ------------------------------------------------------------------ bounds
DIDs == {"A", "B", "C"}         \* subject ids the upstream API can return
ME == "B"                       \* client.me.did, the acting identity
MaxFollowers == 3               \* longest follower list enumerated
MaxInteractors == 3             \* most liker and reposter profiles enumerated
Handles == {"h1", "h2"}         \* handles a profile can carry

\* ------------------------------------------------------- program constants
Hour == 2                       \* timedelta(hours=1), in ticks
CREATES_PER_HOUR == 2
DELAY_BETWEEN_CREATES == Hour \div CREATES_PER_HOUR
MAX_RETRIES == 5
INITIAL_BACKOFF == 1
SAVE_EVERY == 2                 \* "current % 10 == 0"
WAIT_CHUNK == 1                 \* "chunk = min(60, wait_seconds)"
PAGE_LIMIT == 2                 \* "limit=100"
None == -9                      \* Python None for a timestamp or a cursor (no timestamp reads -9)

VARIABLES
    pc,             \* position of the running process; "start": none runs
    ret,            \* where BatchState.save returns to
    data,           \* BatchState.data of the running process
    file,           \* the state file on disk
    all_followers,  \* fetch_all_followers: list collected so far
    cursor,         \* fetch_all_followers: pagination cursor
    retries,        \* retry counter of fetch_all_followers / add_to_blocklist
    remaining,      \* run_batch_process: candidates the for loop has yet to visit
    did,            \* run_batch_process: the loop variable
    status,         \* run_batch_process: result of add_to_blocklist
    wait_seconds,   \* wait_for_next_hour: time left to wait
    attempts,       \* add_to_blocklist: create_record calls issued for did so far
    answer,         \* what the latest get_followers / create_record call answered
    exit_code,      \* exit status of the last process (None: none has exited by itself)
    calls,          \* history: elapsed time of each create_record call of the last Hour
    saved,          \* history: the processed list the last completed save wrote
    resp,           \* environment: how the upstream answers create_record
    all_liker_profiles, \* blocklist.py: profiles of the likers fetched so far
    all_reposters,  \* blocklist.py: profiles of the reposters fetched so far
    interactors,    \* blocklist.py: the dict did -> profile, as its items in order
    pos,            \* blocklist.py: items of interactors the for loop has taken
    added_count,    \* blocklist.py: the three counters of the summary
    skipped_count,
    failed_count

\* the locals of add_interactors_to_blocklist (blocklist.py)
ivars == <<all_liker_profiles, all_reposters, interactors, pos,
           added_count, skipped_count, failed_count>>

vars == <<pc, ret, data, file, all_followers, cursor, retries, remaining, did,
          status, wait_seconds, attempts, answer, exit_code, calls, saved, resp,
          all_liker_profiles, all_reposters, interactors, pos,
          added_count, skipped_count, failed_count>>

\* ----------------------------------------------------------------- helpers
Range(s) == {s[i] : i \in 1..Len(s)}

Min(a, b) == IF a < b THEN a ELSE b

IsPrefix(s, t) == Len(s) <= Len(t) /\ \A i \in 1..Len(s) : s[i] = t[i]

SeqsUpTo(S, n) == UNION {[1..k -> S] : k \in 0..n}

\* BatchState.__init__
FreshData ==
    [target_did |-> "None", followers |-> <<>>, processed |-> <<>>,
     added |-> 0, skipped |-> 0, failed |-> 0,
     hourly_count |-> 0, hour_started |-> None]

\* The state file.  text tells what reading it gives: "json" a complete
\* document json.dump wrote (valid, data holds it), "partial" an empty or cut
\* document (json.load raises JSONDecodeError), "undecodable" bytes that are
\* not text in the locale's encoding (reading raises UnicodeDecodeError),
\* "not_a_state" a JSON document that is not a BatchState dict.
NoFile == [exists |-> FALSE, valid |-> FALSE, text |-> "none", data |-> FreshData]

\* open(state_file, "w") has truncated the file, json.dump has not finished
TruncatedFile == [exists |-> TRUE, valid |-> FALSE, text |-> "partial", data |-> FreshData]

\* a state file damaged outside the program
DamagedFiles ==
    {[exists |-> TRUE, valid |-> FALSE, text |-> t, data |-> FreshData] :
        t \in {"undecodable", "not_a_state"}}

NoSave == [some |-> FALSE, processed |-> <<>>]

\* ------------------------------------------------------------------- time
Elapse(t, d) == IF t = None THEN None ELSE Min(t + d, Hour)

RECURSIVE ElapseCalls(_, _)
ElapseCalls(cs, d) ==
    IF cs = <<>> THEN <<>>
    ELSE IF Head(cs) + d >= Hour THEN ElapseCalls(Tail(cs), d)
         ELSE <<Head(cs) + d>> \o ElapseCalls(Tail(cs), d)

\* d ticks pass: every stored timestamp lies d further in the past
Advance(d) ==
    /\ data' = [data EXCEPT !.hour_started = Elapse(@, d)]
    /\ file' = [file EXCEPT !.data.hour_started = Elapse(@, d)]
    /\ calls' = ElapseCalls(calls, d)

\* ------------------------------------------------------------- BatchState
\* mutant of reset_hourly_if_needed: an expired window gets a new start and
\* keeps its count
reset_hourly_keeps_count(d) ==
    IF d.hour_started # None
    THEN IF d.hour_started >= Hour
         THEN [d EXCEPT !.hour_started = 0]
         ELSE d
    ELSE [d EXCEPT !.hour_started = 0]

\* BatchState.reset_hourly_if_needed
reset_hourly_if_needed(d) ==
    IF d.hour_started # None
    THEN IF d.hour_started >= Hour
         THEN [d EXCEPT !.hourly_count = 0, !.hour_started = 0]
         ELSE d
    ELSE [d EXCEPT !.hour_started = 0]

\* BatchState.can_proceed, on the data reset_hourly_if_needed left
can_proceed(d) == d.hourly_count < CREATES_PER_HOUR

\* BatchState.increment_hourly
increment_hourly(d) == [d EXCEPT !.hourly_count = @ + 1]

RECURSIVE Filter(_, _)
Filter(s, drop) ==
    IF s = <<>> THEN <<>>
    ELSE IF Head(s) \in drop THEN Filter(Tail(s), drop)
         ELSE <<Head(s)>> \o Filter(Tail(s), drop)

\* BatchState.get_remaining
get_remaining(d) == Filter(d.followers, Range(d.processed))

\* BatchState.mark_processed, first statement: processed.append(did)
mark_append(d, id) == [d EXCEPT !.processed = Append(@, id)]

\* mutant of mark_count: a failed outcome is not counted
mark_count_drop_failed(d, st) ==
    IF st = "added" THEN [d EXCEPT !.added = @ + 1]
    ELSE IF st = "skipped" THEN [d EXCEPT !.skipped = @ + 1]
    ELSE d

\* BatchState.mark_processed, the counter update that follows the append
mark_count(d, st) ==
    IF st = "added" THEN [d EXCEPT !.added = @ + 1]
    ELSE IF st = "skipped" THEN [d EXCEPT !.skipped = @ + 1]
    ELSE [d EXCEPT !.failed = @ + 1]

\* BatchState.mark_processed as a whole
mark_processed(d, id, st) == mark_count(mark_append(d, id), st)


\* ------------------------------------------------------------ environment
\* What create_record answers: "ok" raises nothing; the others raise an
\* AtProtocolError: "dup" a duplicate-record error, "rate" a rate-limit error
\* (HTTP 429), "other" an error of another kind whose text holds none of the
\* words is_rate_limit_error looks for, "other_rate_text" an error of another
\* kind (not a duplicate, not HTTP 429) whose text holds "rate" or "429".
Responses == {"ok", "dup", "rate", "other", "other_rate_text"}

\* is_rate_limit_error: a test on the words of the error text
is_rate_limit_error(r) == r \in {"rate", "other_rate_text"}

\* A script answers the first nrate attempts on a candidate with a rate-limit
\* error and every later attempt with final.
Scripts == [nrate : {0, 1, MAX_RETRIES}, final : {"ok", "dup", "other"}]

FreeResp == [fixed |-> FALSE, script |-> [d \in DIDs |-> [nrate |-> 0, final |-> "ok"]]]

Scripted(id, attempt) ==
    IF attempt <= resp.script[id].nrate THEN "rate" ELSE resp.script[id].final

\* create_record may answer r to this attempt
Answers(r) == ~resp.fixed \/ r = Scripted(did, retries + 1)

\* ------------------------------------------------------------------- Init
\* add_interactors_to_blocklist is not running
NoInteractorLocals ==
    /\ all_liker_profiles = <<>>
    /\ all_reposters = <<>>
    /\ interactors = <<>>
    /\ pos = 0
    /\ added_count = 0
    /\ skipped_count = 0
    /\ failed_count = 0

Init ==
    /\ pc = "start"
    /\ ret = "none"
    /\ data = FreshData
    /\ file = NoFile
    /\ all_followers = <<>>
    /\ cursor = None
    /\ retries = 0
    /\ remaining = <<>>
    /\ did = "None"
    /\ status = "None"
    /\ wait_seconds = 0
    /\ attempts = 0
    /\ answer = "None"
    /\ exit_code = None
    /\ calls = <<>>
    /\ saved = NoSave
    /\ resp = FreeResp
    /\ NoInteractorLocals

ResetLocals ==
    /\ ret' = "none"
    /\ all_followers' = <<>>
    /\ cursor' = None
    /\ retries' = 0
    /\ remaining' = <<>>
    /\ did' = "None"
    /\ status' = "None"
    /\ wait_seconds' = 0
    /\ attempts' = 0
    /\ answer' = "None"
    /\ all_liker_profiles' = <<>>
    /\ all_reposters' = <<>>
    /\ interactors' = <<>>
    /\ pos' = 0
    /\ added_count' = 0
    /\ skipped_count' = 0
    /\ failed_count' = 0

\* The process ends with exit status code; its memory is gone.
Terminate(code) ==
    /\ pc' = "start"
    /\ exit_code' = code
    /\ data' = FreshData
    /\ ResetLocals

\* ------------------------------------------------------- BatchState.save
\* save, up to the open(..., "w") that truncates the file; r: where save returns
save_open(r) ==
    /\ file' = TruncatedFile
    /\ pc' = "save_write"
    /\ ret' = r

\* save: json.dump has written the whole document
SaveWrite ==
    /\ pc = "save_write"
    /\ file' = [exists |-> TRUE, valid |-> TRUE, text |-> "json", data |-> data]
    /\ saved' = [some |-> TRUE, processed |-> data.processed]
    /\ pc' = ret
    /\ ret' = "none"
    /\ UNCHANGED <<data, all_followers, cursor, retries, remaining, did, status,
                   wait_seconds, attempts, answer, exit_code, calls, resp>>
    /\ UNCHANGED ivars

\* --------------------------------------------- add_followers_to_blocklist
\* BatchState.load: what it does with the file: returns True, returns False
\* (no file, or JSONDecodeError / IOError caught), or lets an exception out
load(f) ==
    IF ~f.exists THEN "False"
    ELSE IF f.text = "json" THEN "True"
    ELSE IF f.text = "partial" THEN "False"
    ELSE IF f.text = "undecodable" THEN "UnicodeDecodeError"
    ELSE "True_not_a_state"

\* BatchState(state_file); state.load() and the progress lines that read
\* state.data; an exception nothing catches ends the process with status 1
Load ==
    /\ pc = "start"
    /\ IF load(file) \in {"True", "False"}
       THEN /\ data' = IF load(file) = "True" THEN file.data ELSE FreshData
            /\ pc' = IF load(file) = "True" THEN "choice" ELSE "login"
            /\ exit_code' = None
            /\ UNCHANGED <<ret, all_followers, cursor, retries, remaining, did, status,
                           wait_seconds, attempts, answer>>
            /\ UNCHANGED ivars
       ELSE Terminate(1)
    /\ UNCHANGED <<file, calls, saved, resp>>

\* mutant of Choice: the answer n deletes the state file as restart does
ChoiceAbortDeletes ==
    /\ pc = "choice"
    /\ \E choice \in {"y", "restart", "n"} :
        \/ /\ choice = "restart"
           /\ file' = NoFile
           /\ saved' = NoSave
           /\ data' = FreshData
           /\ pc' = "login"
           /\ UNCHANGED <<ret, all_followers, cursor, retries, remaining, did, status,
                          wait_seconds, attempts, answer, exit_code>>
           /\ UNCHANGED ivars
        \/ /\ choice = "y"
           /\ pc' = "login"
           /\ UNCHANGED <<ret, data, file, saved, all_followers, cursor, retries,
                          remaining, did, status, wait_seconds, attempts, answer, exit_code>>
           /\ UNCHANGED ivars
        \/ /\ choice = "n"
           /\ Terminate(0)
           /\ file' = NoFile
           /\ saved' = NoSave
    /\ UNCHANGED <<calls, resp>>

\* "Resume this batch? (y/n/restart)"
Choice ==
    /\ pc = "choice"
    /\ \E choice \in {"y", "restart", "n"} :
        \/ /\ choice = "restart"
           /\ file' = NoFile
           /\ saved' = NoSave
           /\ data' = FreshData
           /\ pc' = "login"
           /\ UNCHANGED <<ret, all_followers, cursor, retries, remaining, did, status,
                          wait_seconds, attempts, answer, exit_code>>
           /\ UNCHANGED ivars
        \/ /\ choice = "y"
           /\ pc' = "login"
           /\ UNCHANGED <<ret, data, file, saved, all_followers, cursor, retries,
                          remaining, did, status, wait_seconds, attempts, answer, exit_code>>
           /\ UNCHANGED ivars
        \/ /\ choice = "n"
           /\ Terminate(0)
           /\ UNCHANGED <<file, saved>>
    /\ UNCHANGED <<calls, resp>>

\* client.login; then the fresh / resume split on state.data["target_did"]
Login ==
    /\ pc = "login"
    /\ \E ok \in BOOLEAN :
        IF ok
        THEN /\ pc' = IF data.target_did = "None" THEN "setup" ELSE "run_start"
             /\ UNCHANGED <<ret, data, all_followers, cursor, retries, remaining, did,
                            status, wait_seconds, attempts, answer, exit_code>>
             /\ UNCHANGED ivars
        ELSE Terminate(1)
    /\ UNCHANGED <<file, calls, saved, resp>>

\* resolve_user_did, parse_list_url_to_uri, the list-owner warning
Setup ==
    /\ pc = "setup"
    /\ \E outcome \in {"ok", "ValueError", "declined"} :
        IF outcome = "ok"
        THEN /\ pc' = "fetch"
             /\ all_followers' = <<>>
             /\ cursor' = None
             /\ retries' = 0
             /\ UNCHANGED <<ret, data, remaining, did, status, wait_seconds, attempts, answer, exit_code>>
             /\ UNCHANGED ivars
        ELSE Terminate(IF outcome = "ValueError" THEN 1 ELSE 0)
    /\ UNCHANGED <<file, calls, saved, resp>>

\* ---------------------------------------------------- fetch_all_followers
\* one request answered with a page and the next cursor (None: last page)
FetchPage ==
    /\ pc = "fetch"
    /\ \E page \in SeqsUpTo(DIDs, PAGE_LIMIT), more \in BOOLEAN :
        /\ Len(all_followers) + Len(page) <= MaxFollowers
        /\ all_followers' = all_followers \o page
        /\ cursor' = IF more THEN Len(all_followers') ELSE None
        /\ retries' = 0
        /\ answer' = "ok"
        /\ pc' = IF cursor' = None THEN "fetched" ELSE "fetch"
    /\ UNCHANGED <<ret, data, file, remaining, did, status, wait_seconds, attempts, exit_code,
                   calls, saved, resp>>
    /\ UNCHANGED ivars

\* the AtProtocolErrors get_followers can raise, by kind and text as in Responses
FetchErrors == {"rate", "other", "other_rate_text"}

\* one request answered with an AtProtocolError: the backoff sleep and the
\* retry of the same page, or the end of the enumeration
FetchError ==
    /\ pc = "fetch"
    /\ \E e \in FetchErrors :
        /\ answer' = e
        /\ IF is_rate_limit_error(e) /\ retries + 1 < MAX_RETRIES
           THEN /\ retries' = retries + 1
                /\ Advance(INITIAL_BACKOFF * (2 ^ (retries' - 1)))
                /\ pc' = "fetch"
           ELSE /\ retries' = IF is_rate_limit_error(e) THEN retries + 1 ELSE retries
                /\ pc' = "fetched"
                /\ UNCHANGED <<data, file, calls>>
    /\ UNCHANGED <<ret, all_followers, cursor, remaining, did, status,
                   wait_seconds, attempts, exit_code, saved, resp>>
    /\ UNCHANGED ivars

\* after fetch_all_followers: nothing to do / the confirmation / state init and save
Confirm ==
    /\ pc = "fetched"
    /\ IF all_followers = <<>>
       THEN /\ Terminate(0)
            /\ UNCHANGED file
       ELSE \E reply \in {"y", "n"} :
            IF reply = "y"
            THEN /\ data' = [data EXCEPT !.target_did = "target",
                                         !.followers = all_followers,
                                         !.hour_started = 0]
                 /\ save_open("run_start")
                 /\ all_followers' = <<>>
                 /\ cursor' = None
                 /\ retries' = 0
                 /\ answer' = "None"
                 /\ UNCHANGED <<remaining, did, status, wait_seconds, attempts, exit_code>>
                 /\ UNCHANGED ivars
            ELSE /\ Terminate(0)
                 /\ UNCHANGED file
    /\ UNCHANGED <<calls, saved, resp>>

\* ------------------------------------------------------ run_batch_process
\* remaining = state.get_remaining()
RunStart ==
    /\ pc = "run_start"
    /\ remaining' = get_remaining(data)
    /\ pc' = "for"
    /\ UNCHANGED <<ret, data, file, all_followers, cursor, retries, did, status,
                   wait_seconds, attempts, answer, exit_code, calls, saved, resp>>
    /\ UNCHANGED ivars

\* "for did in remaining": the next candidate and its quota check
\* (can_proceed, and the save before wait_for_next_hour), or the loop's end
\* and the final save
ForNext ==
    /\ pc = "for"
    /\ IF remaining = <<>>
       THEN /\ save_open("complete")
            /\ UNCHANGED <<data, remaining, did>>
       ELSE /\ did' = Head(remaining)
            /\ remaining' = Tail(remaining)
            /\ data' = reset_hourly_if_needed(data)
            /\ IF can_proceed(data')
               THEN /\ pc' = "self_check"
                    /\ UNCHANGED <<ret, file>>
               ELSE save_open("wait_for_next_hour")
    /\ UNCHANGED <<all_followers, cursor, retries, status, wait_seconds, attempts, answer, exit_code,
                   calls, saved, resp>>
    /\ UNCHANGED ivars

\* BatchState.wait_for_next_hour, up to the sleep loop
WaitForNextHour ==
    /\ pc = "wait_for_next_hour"
    /\ IF data.hour_started = None
       THEN /\ pc' = "self_check"
            /\ UNCHANGED wait_seconds
       ELSE /\ wait_seconds' = Hour - data.hour_started
            /\ pc' = IF wait_seconds' > 0 THEN "wait_sleep" ELSE "self_check"
    /\ UNCHANGED <<ret, data, file, all_followers, cursor, retries, remaining, did,
                   status, attempts, answer, exit_code, calls, saved, resp>>
    /\ UNCHANGED ivars

\* mutant of WaitSleep: the time slept is not taken off wait_seconds
WaitSleepStuck ==
    /\ pc = "wait_sleep"
    /\ LET chunk == Min(WAIT_CHUNK, wait_seconds) IN
        /\ Advance(chunk)
        /\ wait_seconds' = wait_seconds
        /\ pc' = IF wait_seconds' > 0 THEN "wait_sleep" ELSE "wait_reset"
    /\ UNCHANGED <<ret, all_followers, cursor, retries, remaining, did, status,
                   attempts, answer, exit_code, saved, resp>>
    /\ UNCHANGED ivars

\* wait_for_next_hour: one chunk of the sleep loop
WaitSleep ==
    /\ pc = "wait_sleep"
    /\ LET chunk == Min(WAIT_CHUNK, wait_seconds) IN
        /\ Advance(chunk)
        /\ wait_seconds' = wait_seconds - chunk
        /\ pc' = IF wait_seconds' > 0 THEN "wait_sleep" ELSE "wait_reset"
    /\ UNCHANGED <<ret, all_followers, cursor, retries, remaining, did, status,
                   attempts, answer, exit_code, saved, resp>>
    /\ UNCHANGED ivars

\* wait_for_next_hour: "Reset for new hour" and its save
WaitReset ==
    /\ pc = "wait_reset"
    /\ data' = [data EXCEPT !.hourly_count = 0, !.hour_started = 0]
    /\ save_open("self_check")
    /\ UNCHANGED <<all_followers, cursor, retries, remaining, did, status, wait_seconds, attempts, answer,
                   exit_code, calls, saved, resp>>
    /\ UNCHANGED ivars

\* mutant of SelfCheck: the acting identity is not singled out
SelfCheckMissing ==
    /\ pc = "self_check"
    /\ pc' = "pace"
    /\ UNCHANGED <<ret, data, file, all_followers, cursor, retries, remaining, did, status,
                   wait_seconds, attempts, answer, exit_code, calls, saved, resp>>
    /\ UNCHANGED ivars

\* "if did == client.me.did"
SelfCheck ==
    /\ pc = "self_check"
    /\ IF did = ME
       THEN /\ status' = "skipped"
            /\ pc' = "mark_processed"
       ELSE /\ pc' = "pace"
            /\ UNCHANGED status
    /\ UNCHANGED <<ret, data, file, all_followers, cursor, retries, remaining, did,
                   wait_seconds, attempts, answer, exit_code, calls, saved, resp>>
    /\ UNCHANGED ivars

\* mutant of Pace: the pacing sleep is left out
PaceNoSleep ==
    /\ pc = "pace"
    /\ retries' = 0
    /\ attempts' = 0
    /\ answer' = "None"
    /\ pc' = "add_to_blocklist"
    /\ UNCHANGED <<ret, data, file, calls, all_followers, cursor, remaining, did, status,
                   wait_seconds, exit_code, saved, resp>>
    /\ UNCHANGED ivars

\* time.sleep(DELAY_BETWEEN_CREATES), then add_to_blocklist is entered
Pace ==
    /\ pc = "pace"
    /\ Advance(DELAY_BETWEEN_CREATES)
    /\ retries' = 0
    /\ attempts' = 0
    /\ answer' = "None"
    /\ pc' = "add_to_blocklist"
    /\ UNCHANGED <<ret, all_followers, cursor, remaining, did, status, wait_seconds,
                   exit_code, saved, resp>>
    /\ UNCHANGED ivars

\* mutant of RetriesExhausted: the bound is off by one
RetriesExhaustedLate(n) == n > MAX_RETRIES

\* add_to_blocklist: "retries >= MAX_RETRIES", the test that ends the retry
\* loop (the while condition is its negation)
RetriesExhausted(n) == n >= MAX_RETRIES

\* mutant of Classify: a duplicate answer is counted as a failure
ClassifyDupFails(r, n) ==
    IF r = "ok" THEN "added"
    ELSE IF is_rate_limit_error(r) THEN (IF RetriesExhausted(n) THEN "failed" ELSE "retry")
    ELSE "failed"

\* add_to_blocklist: the status an answer of create_record gives, "retry" when
\* the loop goes on; n is the value of retries after the answer.  The answers
\* are told apart as the code tells them apart: "ok" raised nothing, "dup" is
\* an error whose text holds "duplicate record" or "already exists", then
\* comes is_rate_limit_error, and the rest fails.
Classify(r, n) ==
    IF r = "ok" THEN "added"
    ELSE IF r = "dup" THEN "skipped"
    ELSE IF is_rate_limit_error(r) THEN (IF RetriesExhausted(n) THEN "failed" ELSE "retry")
    ELSE "failed"

\* add_to_blocklist: one turn of "while retries < MAX_RETRIES": one
\* create_record call and the handling of its answer
Attempt ==
    /\ pc = "add_to_blocklist"
    /\ IF ~RetriesExhausted(retries)
       THEN \E r \in Responses :
            /\ Answers(r)
            /\ calls' = Append(calls, 0)
            /\ attempts' = attempts + 1
            /\ answer' = r
            /\ retries' = IF is_rate_limit_error(r) THEN retries + 1 ELSE retries
            /\ IF Classify(r, retries') = "retry"
               THEN /\ pc' = "backoff"
                    /\ UNCHANGED status
               ELSE /\ pc' = "mark_processed"
                    /\ status' = Classify(r, retries')
       ELSE /\ status' = "failed"
            /\ pc' = "mark_processed"
            /\ UNCHANGED <<calls, retries, attempts, answer>>
    /\ UNCHANGED <<ret, data, file, all_followers, cursor, remaining, did, wait_seconds,
                   exit_code, saved, resp>>
    /\ UNCHANGED ivars

\* add_to_blocklist: wait = INITIAL_BACKOFF * (2 ** (retries - 1)); time.sleep(wait)
Backoff ==
    /\ pc = "backoff"
    /\ Advance(INITIAL_BACKOFF * (2 ^ (retries - 1)))
    /\ pc' = "add_to_blocklist"
    /\ UNCHANGED <<ret, all_followers, cursor, retries, remaining, did, status,
                   wait_seconds, attempts, answer, exit_code, saved, resp>>
    /\ UNCHANGED ivars

\* state.mark_processed: self.data["processed"].append(did)
MarkAppend ==
    /\ pc = "mark_processed"
    /\ data' = mark_append(data, did)
    /\ pc' = "mark_count"
    /\ attempts' = 0
    /\ answer' = "None"
    /\ UNCHANGED <<ret, file, all_followers, cursor, retries, remaining, did, status,
                   wait_seconds, exit_code, calls, saved, resp>>
    /\ UNCHANGED ivars

\* state.mark_processed: the counter update; on the self-skip path the
\* save and "continue" follow
MarkCount ==
    /\ pc = "mark_count"
    /\ data' = mark_count(data, status)
    /\ IF did = ME
       THEN save_open("for")
       ELSE /\ pc' = "increment_hourly"
            /\ UNCHANGED <<ret, file>>
    /\ UNCHANGED <<all_followers, cursor, retries, remaining, did, status, wait_seconds, attempts, answer,
                   exit_code, calls, saved, resp>>
    /\ UNCHANGED ivars

\* state.increment_hourly() and the periodic save
IncrementHourly ==
    /\ pc = "increment_hourly"
    /\ data' = increment_hourly(data)
    /\ IF Len(data'.processed) % SAVE_EVERY = 0
       THEN save_open("for")
       ELSE /\ pc' = "for"
            /\ UNCHANGED <<ret, file>>
    /\ UNCHANGED <<all_followers, cursor, retries, remaining, did, status, wait_seconds, attempts, answer,
                   exit_code, calls, saved, resp>>
    /\ UNCHANGED ivars

\* positions inside the try block of run_batch_process
InTry ==
    \/ pc \in {"for", "wait_for_next_hour", "wait_sleep", "wait_reset", "self_check",
               "pace", "add_to_blocklist", "backoff", "mark_processed", "mark_count",
               "increment_hourly"}
    \/ pc = "save_write" /\ ret \in {"for", "wait_for_next_hour", "self_check"}

\* mutant of Interrupt: the handler exits without saving
InterruptNoSave ==
    /\ InTry
    /\ pc' = "sys_exit"
    /\ UNCHANGED <<ret, data, file, all_followers, cursor, retries, remaining, did, status,
                   wait_seconds, attempts, answer, exit_code, calls, saved, resp>>
    /\ UNCHANGED ivars

\* KeyboardInterrupt raised inside the try block: the handler's state.save()
Interrupt ==
    /\ InTry
    /\ save_open("sys_exit")
    /\ UNCHANGED <<data, all_followers, cursor, retries, remaining, did, status,
                   wait_seconds, attempts, answer, exit_code, calls, saved, resp>>
    /\ UNCHANGED ivars

\* the handler's sys.exit(0)
SysExit ==
    /\ pc = "sys_exit"
    /\ Terminate(0)
    /\ UNCHANGED <<file, calls, saved, resp>>

\* "--- Batch Complete ---" and "Delete state file? (y/n)"
Complete ==
    /\ pc = "complete"
    /\ \E reply \in {"y", "n"} :
        /\ file' = IF reply = "y" THEN NoFile ELSE file
        /\ saved' = IF reply = "y" THEN NoSave ELSE saved
    /\ Terminate(0)
    /\ UNCHANGED <<calls, resp>>

\* ------------------------------------------------------------ environment
\* The process is ended from outside at any point (kill, power loss, an
\* interrupt outside the try block): no handler runs, the file stays as it is.
Crash ==
    /\ pc # "start"
    /\ Terminate(None)
    /\ UNCHANGED <<file, calls, saved, resp>>

\* positions where time passes beyond the sleeps: between two runs of the
\* program, and while a request or a wait is under way
TickPCs == {"start", "add_to_blocklist", "wait_for_next_hour"}

Tick ==
    /\ pc \in TickPCs
    /\ Advance(1)
    /\ UNCHANGED <<pc, ret, all_followers, cursor, retries, remaining, did, status,
                   wait_seconds, attempts, answer, exit_code, saved, resp>>
    /\ UNCHANGED ivars

\* what a stored timestamp t reads as after the clock was set back one Hour
\* (Hour stands for "an Hour or more")
SetBack(t) ==
    IF t = None THEN {None}
    ELSE IF t = Hour THEN 0..Hour
    ELSE {t - Hour}

\* datetime.now() is the local wall clock: between two runs of the program it
\* is set back one Hour (the end of daylight saving time).  The sleeps and the
\* upstream's quota run on real time and are not affected.
ClockSetBack ==
    /\ pc = "start"
    /\ data.hour_started # None \/ file.data.hour_started # None
    /\ data.hour_started = None \/ data.hour_started >= 0
    /\ file.data.hour_started = None \/ file.data.hour_started >= 0
    /\ \E t \in SetBack(data.hour_started), u \in SetBack(file.data.hour_started) :
        /\ data' = [data EXCEPT !.hour_started = t]
        /\ file' = [file EXCEPT !.data.hour_started = u]
    /\ UNCHANGED <<pc, ret, all_followers, cursor, retries, remaining, did, status,
                   wait_seconds, attempts, answer, exit_code, calls, saved, resp>>
    /\ UNCHANGED ivars

Next ==
    \/ Load
    \/ Choice
    \/ Login
    \/ Setup
    \/ FetchPage
    \/ FetchError
    \/ Confirm
    \/ SaveWrite
    \/ RunStart
    \/ ForNext
    \/ WaitForNextHour
    \/ WaitSleep
    \/ WaitReset
    \/ SelfCheck
    \/ Pace
    \/ Attempt
    \/ Backoff
    \/ MarkAppend
    \/ MarkCount
    \/ IncrementHourly
    \/ Interrupt
    \/ SysExit
    \/ Complete
    \/ Crash
    \/ Tick
    \/ ClockSetBack

Spec == Init /\ [][Next]_vars

\* The same program against an upstream whose answers are a fixed function of
\* the candidate and the attempt number.
FixedScripts ==
    {[nrate |-> 0, final |-> "ok"], [nrate |-> 1, final |-> "dup"],
     [nrate |-> 0, final |-> "other"], [nrate |-> MAX_RETRIES, final |-> "ok"]}

InitFixed ==
    /\ pc = "start"
    /\ ret = "none"
    /\ data = FreshData
    /\ file = NoFile
    /\ all_followers = <<>>
    /\ cursor = None
    /\ retries = 0
    /\ remaining = <<>>
    /\ did = "None"
    /\ status = "None"
    /\ wait_seconds = 0
    /\ attempts = 0
    /\ answer = "None"
    /\ exit_code = None
    /\ calls = <<>>
    /\ saved = NoSave
    /\ \E sa \in FixedScripts, sc \in FixedScripts :
        resp = [fixed |-> TRUE,
                script |-> [d \in DIDs |-> IF d = "A" THEN sa
                                          ELSE IF d = "C" THEN sc
                                          ELSE [nrate |-> 0, final |-> "ok"]]]
    /\ NoInteractorLocals

SpecFixed == InitFixed /\ [][Next]_vars

\* The follower workflow started on whatever the working directory holds: no
\* state file, or one that is not a document save wrote in full.
InitLoad ==
    /\ pc = "start"
    /\ ret = "none"
    /\ data = FreshData
    /\ file \in {NoFile, TruncatedFile} \cup DamagedFiles
    /\ all_followers = <<>>
    /\ cursor = None
    /\ retries = 0
    /\ remaining = <<>>
    /\ did = "None"
    /\ status = "None"
    /\ wait_seconds = 0
    /\ attempts = 0
    /\ answer = "None"
    /\ exit_code = None
    /\ calls = <<>>
    /\ saved = NoSave
    /\ resp = FreeResp
    /\ NoInteractorLocals

SpecLoad == InitLoad /\ [][Next]_vars

\* ------------------------------- blocklist.py: add_interactors_to_blocklist
\* a profile as get_likes / get_reposted_by return it
Profiles == [did : DIDs, handle : Handles]

\* dict insertion: a key already there keeps its place and takes the new value
DictPut(items, u) ==
    IF \E i \in 1..Len(items) : items[i].did = u.did
    THEN [i \in 1..Len(items) |-> IF items[i].did = u.did THEN u ELSE items[i]]
    ELSE Append(items, u)

\* {user.did: user for user in users}: the items of the dict, in its order
RECURSIVE DictOf(_, _)
DictOf(users, items) ==
    IF users = <<>> THEN items
    ELSE DictOf(Tail(users), DictPut(items, Head(users)))

\* client.login.  (A run is started when the calls of earlier runs are more
\* than an Hour old, which keeps the history calls finite.)
ILogin ==
    /\ pc = "start"
    /\ calls = <<>>
    /\ \E ok \in BOOLEAN :
        IF ok
        THEN /\ pc' = "i_setup"
             /\ exit_code' = None
             /\ UNCHANGED <<ret, data, all_followers, cursor, retries, remaining, did,
                            status, wait_seconds, attempts, answer>>
             /\ UNCHANGED ivars
        ELSE Terminate(1)
    /\ UNCHANGED <<file, calls, saved, resp>>

\* parse_url_to_uri for the post and the list, the list-owner warning
ISetup ==
    /\ pc = "i_setup"
    /\ \E outcome \in {"ok", "ValueError", "declined"} :
        IF outcome = "ok"
        THEN /\ pc' = "get_likes"
             /\ cursor' = None
             /\ UNCHANGED <<ret, data, all_followers, retries, remaining, did,
                            status, wait_seconds, attempts, answer, exit_code>>
             /\ UNCHANGED ivars
        ELSE Terminate(IF outcome = "ValueError" THEN 1 ELSE 0)
    /\ UNCHANGED <<file, calls, saved, resp>>

\* one turn of the get_likes loop: a page and the next cursor, or an
\* AtProtocolError and the break
GetLikes ==
    /\ pc = "get_likes"
    /\ \E page \in SeqsUpTo(Profiles, PAGE_LIMIT), more \in BOOLEAN, error \in BOOLEAN :
        /\ Len(all_liker_profiles) + Len(page) <= MaxInteractors
        /\ IF error
           THEN /\ page = <<>> /\ ~more
                /\ pc' = "get_reposted_by"
                /\ cursor' = None
                /\ UNCHANGED all_liker_profiles
           ELSE /\ all_liker_profiles' = all_liker_profiles \o page
                /\ pc' = IF more THEN "get_likes" ELSE "get_reposted_by"
                /\ cursor' = IF more THEN Len(all_liker_profiles') ELSE None
    /\ UNCHANGED <<ret, data, file, all_followers, retries, remaining, did, status,
                   wait_seconds, attempts, answer, exit_code, calls, saved, resp>>
    /\ UNCHANGED <<all_reposters, interactors, pos, added_count, skipped_count, failed_count>>

\* one turn of the get_reposted_by loop
GetRepostedBy ==
    /\ pc = "get_reposted_by"
    /\ \E page \in SeqsUpTo(Profiles, PAGE_LIMIT), more \in BOOLEAN, error \in BOOLEAN :
        /\ Len(all_liker_profiles) + Len(all_reposters) + Len(page) <= MaxInteractors
        /\ IF error
           THEN /\ page = <<>> /\ ~more
                /\ pc' = "interactors"
                /\ cursor' = cursor
                /\ UNCHANGED all_reposters
           ELSE /\ all_reposters' = all_reposters \o page
                /\ pc' = IF more THEN "get_reposted_by" ELSE "interactors"
                /\ cursor' = IF more THEN Len(all_reposters') ELSE None
    /\ UNCHANGED <<ret, data, file, all_followers, retries, remaining, did, status,
                   wait_seconds, attempts, answer, exit_code, calls, saved, resp>>
    /\ UNCHANGED <<all_liker_profiles, interactors, pos, added_count, skipped_count, failed_count>>

\* interactors = {user.did: user for user in all_liker_profiles + all_reposters}
\* and the three counters set to 0
Interactors ==
    /\ pc = "interactors"
    /\ interactors' = DictOf(all_liker_profiles \o all_reposters, <<>>)
    /\ added_count' = 0
    /\ skipped_count' = 0
    /\ failed_count' = 0
    /\ pos' = 0
    /\ pc' = "i_for"
    /\ UNCHANGED <<ret, data, file, all_followers, cursor, retries, remaining, did, status,
                   wait_seconds, attempts, answer, exit_code, calls, saved, resp>>
    /\ UNCHANGED <<all_liker_profiles, all_reposters>>

\* "for did, user_profile in interactors.items()" and "if did == client.me.did: continue"
IFor ==
    /\ pc = "i_for"
    /\ IF pos = Len(interactors)
       THEN /\ pc' = "summary"
            /\ UNCHANGED <<did, pos>>
       ELSE /\ did' = interactors[pos + 1].did
            /\ pos' = pos + 1
            /\ pc' = IF did' = ME THEN "i_for" ELSE "create_record"
    /\ UNCHANGED <<ret, data, file, all_followers, cursor, retries, remaining, status,
                   wait_seconds, attempts, answer, exit_code, calls, saved, resp>>
    /\ UNCHANGED <<all_liker_profiles, all_reposters, interactors,
                   added_count, skipped_count, failed_count>>

\* the outcome blocklist.py gives an answer of create_record; exact: the text
\* of a duplicate error holds 'duplicate record' in just these letters
IClassify(r, exact) ==
    IF r = "ok" THEN "added"
    ELSE IF r = "dup" /\ exact THEN "skipped"
    ELSE "failed"

\* the try block of the loop: one create_record call and the counter it moves
ICreate ==
    /\ pc = "create_record"
    /\ \E r \in Responses, exact \in BOOLEAN :
        /\ calls' = Append(calls, 0)
        /\ added_count' = added_count + (IF IClassify(r, exact) = "added" THEN 1 ELSE 0)
        /\ skipped_count' = skipped_count + (IF IClassify(r, exact) = "skipped" THEN 1 ELSE 0)
        /\ failed_count' = failed_count + (IF IClassify(r, exact) = "failed" THEN 1 ELSE 0)
    /\ pc' = "i_for"
    /\ UNCHANGED <<ret, data, file, all_followers, cursor, retries, remaining, did, status,
                   wait_seconds, attempts, answer, exit_code, saved, resp>>
    /\ UNCHANGED <<all_liker_profiles, all_reposters, interactors, pos>>

\* "--- Summary ---" and the end of the script
Summary ==
    /\ pc = "summary"
    /\ Terminate(0)
    /\ UNCHANGED <<file, calls, saved, resp>>

NextInteractors ==
    \/ ILogin
    \/ ISetup
    \/ GetLikes
    \/ GetRepostedBy
    \/ Interactors
    \/ IFor
    \/ ICreate
    \/ Summary
    \/ Crash
    \/ Tick

SpecInteractors == Init /\ [][NextInteractors]_vars

\* ------------------------------------------- run_batch_process on its own
\* The batch states run_batch_process can be started from: a candidate list,
\* a prefix of it processed, and any window counters (a timestamp below 0 is
\* one taken before the clock was set back).
Batches ==
    UNION {{[target_did |-> "target", followers |-> fs, processed |-> SubSeq(fs, 1, k),
             added |-> Cardinality({i \in 1..k : fs[i] # ME}),
             skipped |-> Cardinality({i \in 1..k : fs[i] = ME}),
             failed |-> 0, hourly_count |-> hc, hour_started |-> hs] :
                k \in 0..Len(fs), hc \in 0..CREATES_PER_HOUR, hs \in (0 - Hour)..Hour} :
           fs \in SeqsUpTo(DIDs, MaxFollowers) \ {<<>>}}

\* the orchestrator has loaded or set up the batch and calls run_batch_process
InitLive ==
    /\ pc = "run_start"
    /\ ret = "none"
    /\ data \in Batches
    /\ file = [exists |-> TRUE, valid |-> TRUE, text |-> "json", data |-> data]
    /\ all_followers = <<>>
    /\ cursor = None
    /\ retries = 0
    /\ remaining = <<>>
    /\ did = "None"
    /\ status = "None"
    /\ wait_seconds = 0
    /\ attempts = 0
    /\ answer = "None"
    /\ exit_code = None
    /\ calls = <<>>
    /\ saved = [some |-> TRUE, processed |-> data.processed]
    /\ resp = FreeResp
    /\ NoInteractorLocals

\* the steps of run_batch_process when no interrupt is raised
RunStep ==
    \/ RunStart
    \/ ForNext
    \/ WaitForNextHour
    \/ WaitSleep
    \/ WaitReset
    \/ SelfCheck
    \/ Pace
    \/ Attempt
    \/ Backoff
    \/ MarkAppend
    \/ MarkCount
    \/ IncrementHourly
    \/ SaveWrite

NextLive ==
    \/ RunStep
    \/ Tick

\* Every sleep and every upstream call returns: a step of run_batch_process
\* that can be taken is taken.
SpecLive == InitLive /\ [][NextLive]_vars /\ WF_vars(RunStep)

\* ================================================================= claims

\* add_to_blocklist as a function of the script: the status the retry loop
\* returns for id when n rate-limit answers have been counted
RECURSIVE ScriptedStatus(_, _)
ScriptedStatus(id, n) ==
    IF RetriesExhausted(n) THEN "failed"
    ELSE LET r == Scripted(id, n + 1)
             m == IF is_rate_limit_error(r) THEN n + 1 ELSE n
         IN  IF Classify(r, m) = "retry" THEN ScriptedStatus(id, m) ELSE Classify(r, m)

\* the for loop of run_batch_process over rem, without interrupt, from state d
RECURSIVE RunLoop(_, _)
RunLoop(rem, d) ==
    IF rem = <<>> THEN d
    ELSE LET id == Head(rem)
             st == IF id = ME THEN "skipped" ELSE ScriptedStatus(id, 0)
         IN  RunLoop(Tail(rem), mark_processed(d, id, st))

Totals(d) == <<d.added, d.skipped, d.failed>>

\* one uninterrupted run over the candidate list fs, from a fresh state
UninterruptedTotals(fs) ==
    LET d0 == [FreshData EXCEPT !.followers = fs] IN Totals(RunLoop(get_remaining(d0), d0))

Consistent(d) ==
    /\ d.added + d.skipped + d.failed = Len(d.processed)
    /\ Range(d.processed) \subseteq Range(d.followers)

\* a create_record call has been issued for did and its outcome is not yet recorded
CallIssued == attempts > 0 /\ pc \in {"add_to_blocklist", "backoff", "mark_processed"}

\* C1: every create_record call is issued for an id that get_remaining still
\* lists: never for an id already recorded in processed, and never when the
\* remaining set is empty.
C1_MutatesOnlyRemaining == CallIssued => did \in Range(get_remaining(data))

\* C2: the create_record calls issued within any interval of one Hour (retry
\* attempts and resumed runs included) are at most CREATES_PER_HOUR.  calls
\* holds the time elapsed since each call; the interval is half open.
C2_QuotaDiscipline ==
    Cardinality({i \in 1..Len(calls) : calls[i] < Hour}) <= CREATES_PER_HOUR

\* the quota is used up within one window, a retry attempt among the calls
C2_Witness ==
    /\ Cardinality({i \in 1..Len(calls) : calls[i] < Hour}) = CREATES_PER_HOUR
    /\ pc = "backoff"
    /\ retries >= 2
    /\ data.processed # <<>>

\* C3: under fixed upstream answers, a batch that reaches "Batch Complete" has
\* the added / skipped / failed totals of one uninterrupted run over its
\* candidate list, however often it was stopped and resumed on the way.
C3_ResumeSameTotals ==
    pc = "complete" => Totals(data) = UninterruptedTotals(data.followers)

\* C4: between the steps of a run the counters add up to len(processed) and
\* processed holds only candidates, in memory and in every state written to
\* the state file.
C4_TallyInvariant ==
    /\ pc \in {"run_start", "for", "complete"} => Consistent(data)
    /\ file.valid => Consistent(file.data)

\* C5: once a save has completed, every later load (whatever crash came in
\* between) yields a batch state that contains the outcomes of that save.
C5_SavedOutcomesSurvive ==
    (pc \in {"choice", "login"} /\ saved.some) =>
        /\ file.valid
        /\ IsPrefix(saved.processed, data.processed)

Last(q) == q[Len(q)]

\* the step that ends mark_processed for a candidate and leaves the executor running
Recorded == pc = "mark_count" /\ pc' \in {"increment_hourly", "save_write"} /\ ret' # "sys_exit"

\* C6: when the interrupt handler has run, the state file holds the in-memory
\* state: the same processed list and counters, and every candidate not yet
\* recorded is still listed by get_remaining of the file.
C6_InterruptPersists ==
    pc = "sys_exit" =>
        /\ file.valid
        /\ file.data.processed = data.processed
        /\ Totals(file.data) = Totals(data)
        /\ file.data.followers = data.followers
        /\ \A id \in Range(remaining) \cup {did} :
            (id # "None" /\ id \notin Range(data.processed))
                => id \in Range(get_remaining(file.data))

\* an interrupt reached the handler with outcomes in memory that no periodic
\* save had written, and candidates left over
C6_Witness ==
    /\ pc = "sys_exit"
    /\ Len(data.processed) % SAVE_EVERY # 0
    /\ Last(data.processed) # ME
    /\ get_remaining(file.data) # <<>>

C8_BoundedRetries ==
    /\ attempts <= MAX_RETRIES
    /\ (pc \in {"add_to_blocklist", "backoff"} => retries = attempts /\ retries < MAX_RETRIES)
    /\ (pc = "mark_processed" /\ did # ME) =>
        /\ (answer = "rate" => status = "failed" /\ attempts = MAX_RETRIES)
        /\ (answer = "ok" => status = "added")

\* MAX_RETRIES rate-limit answers in a row have ended in failed
C8_Witness ==
    /\ pc = "mark_processed"
    /\ attempts = MAX_RETRIES
    /\ retries = MAX_RETRIES
    /\ answer = "rate"
    /\ status = "failed"

C10_FailedContinues ==
    /\ [](pc = "for" => Range(data.followers) \subseteq Range(data.processed) \cup Range(remaining))
    /\ [](pc = "complete" => Range(data.followers) \subseteq Range(data.processed))
    /\ [][(Recorded /\ status = "failed") =>
            /\ data'.failed = data.failed + 1
            /\ Last(data'.processed) = did
            /\ remaining' = remaining
            /\ pc' = "increment_hourly"]_vars

\* the executor is at the next candidate after nothing but failures
C10_Witness ==
    /\ pc = "pace"
    /\ data.failed >= 1
    /\ data.failed = Len(data.processed)

\* C11: with no interrupt, and every sleep and upstream call returning,
\* run_batch_process started from any batch state reaches the end of the for
\* loop with nothing remaining, whatever create_record answers: the retry
\* loop and the quota-window wait end.
C11_Terminates ==
    (pc = "run_start") ~> (pc = "complete" /\ remaining = <<>> /\ get_remaining(data) = <<>>)

\* a run that started with candidates left is complete, with a candidate
\* that used up its retries
C11_Witness ==
    /\ pc = "complete"
    /\ get_remaining(data) = <<>>
    /\ get_remaining(file.data) = <<>>
    /\ data.failed >= 1

\* the operator has answered y to "Proceed with blocking?" (the only place
\* that sets target_did) and the state set up then is in the state file
ConfirmedAndPersisted ==
    /\ data.target_did # "None"
    /\ file.valid
    /\ file.data.followers = data.followers

\* C12: in either workflow a create_record call is issued only after the
\* operator has confirmed the enumerated candidates and the BatchState set up
\* from them has been written to the state file.
C12_ConfirmedBeforeCalls ==
    (CallIssued \/ pc = "create_record" \/ added_count + skipped_count + failed_count > 0)
        => ConfirmedAndPersisted

\* the first key of users that has the did of u: its index
FirstOf(users, u) == CHOOSE j \in 1..Len(users) :
    /\ users[j].did = u.did
    /\ \A k \in 1..(j - 1) : users[k].did # u.did

\* C18: the interactors built from likers then reposters hold every did of
\* the two lists once, each with the profile of its first occurrence.
C18_FirstSeenWins ==
    pc \in {"i_for", "create_record", "summary"} =>
        LET users == all_liker_profiles \o all_reposters IN
        /\ {interactors[i].did : i \in 1..Len(interactors)} = {users[j].did : j \in 1..Len(users)}
        /\ \A i, k \in 1..Len(interactors) : interactors[i].did = interactors[k].did => i = k
        /\ \A i \in 1..Len(interactors) : interactors[i] = users[FirstOf(users, interactors[i])]

\* C13: the state file stops existing only by the restart answer to the
\* resume prompt or at the delete offer, which comes when the for loop has
\* ended with nothing remaining; a process that ends anywhere else (abort,
\* login or setup failure, interrupt, crash) leaves the file as it is.
C13_DeleteOnlyOnChoice ==
    /\ [][(file.exists /\ ~file'.exists) =>
            \/ pc = "choice" /\ pc' = "login"
            \/ pc = "complete" /\ remaining = <<>> /\ get_remaining(data) = <<>>]_vars
    /\ [][(pc \notin {"start", "complete"} /\ pc' = "start") => file' = file]_vars

\* the state file of a batch that issued calls has been deleted on the
\* operator's choice
C13_Witness ==
    /\ pc = "start"
    /\ exit_code = 0
    /\ ~file.exists
    /\ calls # <<>>

\* C14: when the orchestrator starts with the state file missing or with a
\* content that is not a saved state, load reports no batch in progress: the
\* process goes on to the login with a fresh BatchState and the file is left
\* as it is.
C14_LoadTolerates ==
    [][(pc = "start" /\ ~(file.exists /\ file.valid)
            /\ (pc' # "start" \/ exit_code' # exit_code))
        => (pc' = "login" /\ data' = FreshData /\ file' = file)]_vars

\* the create_record calls of the last Hour issued since hour_started (a call
\* follows the start of its window by a pacing sleep at least)
CallsInWindow(d) == Cardinality({i \in 1..Len(calls) : calls[i] < d.hour_started})

\* C15: between two candidates, hourly_count is the number of create_record
\* calls issued since hour_started, retry attempts included.  The history
\* calls holds the calls of the last Hour: it is all of them while the window
\* is less than an Hour old, and a part of them after that.
C15_WindowCountsCalls ==
    (pc = "for" /\ data.hour_started # None /\ data.hour_started >= 0) =>
        IF data.hour_started < Hour
        THEN data.hourly_count = CallsInWindow(data)
        ELSE data.hourly_count >= CallsInWindow(data)

\* C16: at the loop head, a window that started an Hour or more ago is reset
\* (hourly_count 0, hour_started now) whatever count was loaded, and the
\* executor goes on to the candidate without saving and waiting; the first
\* loop head of a run comes before its first create_record call.
C16_StaleWindowReset ==
    /\ [][(pc = "for" /\ remaining # <<>> /\ data.hour_started # None
                /\ data.hour_started >= Hour /\ pc' # "start" /\ ret' # "sys_exit")
            => (data'.hourly_count = 0 /\ data'.hour_started = 0 /\ pc' = "self_check")]_vars
    /\ [][(pc = "run_start" /\ pc' # "start") => (pc' = "for" /\ attempts' = 0)]_vars

\* a run resumed from a state file with a full window an Hour old has reset
\* the window at its first candidate
C16_Witness ==
    /\ pc = "self_check"
    /\ data.hourly_count = 0
    /\ data.hour_started = 0
    /\ file.valid
    /\ file.data.hourly_count = CREATES_PER_HOUR
    /\ file.data.hour_started >= Hour
    /\ file.data.processed = data.processed

NoDuplicates(q) == \A i, j \in 1..Len(q) : q[i] = q[j] => i = j

\* C17: the list fetch_all_followers builds, and the followers list of the
\* BatchState set up from it, hold no did twice.
C17_CandidatesUnique ==
    /\ pc \in {"fetch", "fetched"} => NoDuplicates(all_followers)
    /\ NoDuplicates(data.followers)
    /\ file.valid => NoDuplicates(file.data.followers)

\* C19: fetch_all_followers asks for the same page again only after a
\* rate-limit answer, less than MAX_RETRIES times in a row, and an error of
\* another kind ends the enumeration at once.
C19_FetchRetriesSamePage ==
    /\ pc = "fetch" => retries < MAX_RETRIES
    /\ (pc = "fetch" /\ retries > 0) => answer = "rate"
    /\ (pc \in {"fetch", "fetched"} /\ answer \in {"other", "other_rate_text"}) => pc = "fetched"

\* fetch_all_followers by its own reading of the error
\* (is_rate_limit_error): an answer it takes for a rate limit leaves the
\* cursor and the list as they are, MAX_RETRIES of them in a row end the
\* enumeration; an error that ends it leaves the list as it is; the list
\* only grows at its end and is what the batch is set up with.
FetchKeepsPages ==
    /\ [](pc = "fetch" => retries < MAX_RETRIES)
    /\ [][(pc = "fetch" /\ retries' > retries) =>
            /\ all_followers' = all_followers
            /\ cursor' = cursor
            /\ retries' = retries + 1
            /\ pc' = (IF retries' >= MAX_RETRIES THEN "fetched" ELSE "fetch")]_vars
    /\ [][(pc = "fetch" /\ pc' = "fetched" /\ cursor' # None) =>
            (all_followers' = all_followers /\ cursor' = cursor)]_vars
    /\ [][(pc = "fetch" /\ pc' \in {"fetch", "fetched"}) =>
            IsPrefix(all_followers, all_followers')]_vars
    /\ [][(pc = "fetched" /\ pc' = "save_write") => data'.followers = all_followers]_vars

\* C20: an error of create_record that is neither a duplicate nor a
\* rate-limit error makes the outcome failed with no further call for the
\* candidate: a backoff sleep follows a rate-limit error only, and the call
\* that got the error is the last one.
C20_OtherErrorFailsFast ==
    /\ pc = "backoff" => answer = "rate"
    /\ (pc = "mark_processed" /\ did # ME /\ answer \in {"other", "other_rate_text"}) =>
            (status = "failed" /\ attempts = retries + 1)

\* positions of run_batch_process: the try block, the interrupt handler and
\* the final save
InRun ==
    \/ InTry
    \/ pc = "sys_exit"
    \/ pc = "save_write" /\ ret \in {"sys_exit", "complete"}

\* the outcomes recorded in memory that the state file does not hold
Unsaved == Len(data.processed) - Len(file.data.processed)

\* C21: at every point of a run the state file holds a processed list that
\* is a prefix of the one in memory and lacks fewer than SAVE_EVERY of its
\* entries (at most 9 for the save at every 10th), so that a kill at that
\* point loses fewer than SAVE_EVERY recorded outcomes.
C21_FileLagsBelowSaveEvery ==
    InRun =>
        /\ file.valid
        /\ IsPrefix(file.data.processed, data.processed)
        /\ Unsaved <= SAVE_EVERY - 1

\* what holds of the file between two saves: while no save is under way it is
\* a whole document, its processed list is a prefix of the one in memory and
\* lacks at most SAVE_EVERY entries
FileLagsBySaveEvery ==
    (InRun /\ pc # "save_write") =>
        /\ file.valid
        /\ IsPrefix(file.data.processed, data.processed)
        /\ Unsaved <= SAVE_EVERY

\* C22: at every point, in memory and in the state file, across interrupts
\* and resumes, processed is a prefix of followers: the candidates are taken
\* in the order of the enumeration.
C22_ProcessedIsPrefix ==
    /\ IsPrefix(data.processed, data.followers)
    /\ file.valid => IsPrefix(file.data.processed, file.data.followers)

\* processed only grows at its end: within a process every step but the
\* restart answer extends it, and a resume after the interrupt handler's
\* save starts from the list the handler wrote
ProcessedOnlyGrows ==
    /\ [][(pc \notin {"start", "choice"} /\ pc' # "start") =>
            IsPrefix(data.processed, data'.processed)]_vars
    /\ [][(file.valid /\ file'.valid) =>
            IsPrefix(file.data.processed, file'.data.processed)]_vars
    /\ [](pc = "sys_exit" => file.valid /\ file.data.processed = data.processed)

\* C23: when the interrupt handler ends the process by itself, the exit
\* status is not 0.
C23_InterruptExitsNonZero ==
    [][(pc = "sys_exit" /\ pc' = "start" /\ exit_code' # None) => exit_code' # 0]_vars

====
